---- MODULE Spec2Model ----
(***************************************************************************)
(* A model of proxmark.py: the USBCommand frame codec, the Proxmark        *)
(* session (construction, finalizer), the bulk transport it talks to and   *)
(* the commands built on them (tune, samples, read_msgs, lf_read, ...).    *)
(*                                                                         *)
(* Bytes are the integers 0..255, a Python str is a sequence of bytes, a   *)
(* USBCommand is a record [cmd, ext1, ext2, ext3, buf].                    *)
(***************************************************************************)
EXTENDS Integers, Sequences, FiniteSets, TLC

VARIABLES
    byteorder,    \* the platform's native byte order, used by struct "IIII"
    busses,       \* what usb.busses() enumerates: the devices, in bus order
    \* ---- codec exercise (SpecCodec) ----
    cpc,          \* "start" | "frame" | "raised" | "encoded" | "decoded"
    origin,       \* how f was built: "none" | "cmd" | "set" | "blob"
    src,          \* the blob f was decoded from (origin = "blob")
    f,            \* outcome of building the frame: [status, frame]
    enc,          \* str(f)
    g,            \* outcome of USBCommand(blob=enc): [status, frame]
    \* ---- session (Spec, SpecSamples) ----
    pc,           \* position of the program
    dev,          \* self.dev: "None" or "handle"
    usb,          \* device-lifecycle calls made so far, with their outcome
    op,           \* the public operation in progress / last called
    x,            \* its optional argument x: <<>> for None, <<v>> for a value
    script,       \* what the device answers to chunk requests in this operation
    n,            \* samples: n after clamping
    nreq,         \* samples: n as passed by the caller
    i,            \* samples: loop variable
    c,            \* the request frame being sent
    r,            \* outcome of the last _recvcmd decode: [status, frame]
    samples,      \* samples: the buffer
    msgs,         \* read_msgs: the list of frames
    antennas,     \* tune: the tuple returned
    result,       \* outcome of the last public operation
    log,          \* bulk transfers of the current operation, in order
    failed,       \* bulk transfers of the current operation that raised
    outstanding,  \* frames written minus frames read, over the session
    ops           \* public operations called so far

cvars == <<cpc, origin, src, f, enc, g>>
svars == <<pc, dev, usb, op, x, script, n, nreq, i, c, r, samples, msgs, antennas,
           result, log, failed, outstanding, ops>>
vars == <<byteorder, busses, cpc, origin, src, f, enc, g,
          pc, dev, usb, op, x, script, n, nreq, i, c, r, samples, msgs, antennas,
          result, log, failed, outstanding, ops>>

----------------------------------------------------------------------------
(* Program constants *)

HeaderSize == 16
PayloadSize == 48
ReadSize == 64
SampleBias == 128
ChunkStep == 12
MaxSamples == 16000
DefaultSamples == 128
HfSamples == 1000

CMD_TUNE == 1024
CMD_TUNE_RESP == 1025
CMD_SAMPLES == 516
CMD_SAMPLES_RESP == 517
CMD_LF_READ == 515
CMD_LF_XMIT == 519
CMD_HID_DEMOD == 520
CMD_HF_READ_14A == 769
CMD_HF_SNOOP_14A == 899
CMD_HF_READER_14A == 901
CMD_HF_READ_15693 == 768
CMD_HF_READER_15693 == 784
CMD_HF_SIM_15693 == 785

(* Bounds of the model *)

MaxOps == 2
MaxMsgs == 2
SmallDownload == 128

----------------------------------------------------------------------------
(* Sequences of bytes *)

Min(a, b) == IF a < b THEN a ELSE b

Take(s, k) == SubSeq(s, 1, Min(k, Len(s)))

Drop(s, k) == IF k >= Len(s) THEN <<>> ELSE SubSeq(s, k + 1, Len(s))

Zeros(k) == [j \in 1..k |-> 0]

(* Header values are kept below 2^31, the largest integer TLC computes with; *)
(* Python's own integers do not overflow, so no behaviour is cut off by it.   *)
(* struct.pack("I", v): four bytes in native order *)
PackI(v, order) ==
    LET le == << v % 256, (v \div 256) % 256, (v \div 65536) % 256,
                 (v \div 16777216) % 256 >>
    IN IF order = "little" THEN le ELSE << le[4], le[3], le[2], le[1] >>

(* struct.unpack("I", b) on four bytes *)
UnpackI(b, order) ==
    IF order = "little"
    THEN b[1] + 256 * b[2] + 65536 * b[3] + 16777216 * b[4]
    ELSE b[4] + 256 * b[3] + 65536 * b[2] + 16777216 * b[1]

(* the class attributes of USBCommand *)
DefaultFrame ==
    [cmd |-> 0, ext1 |-> 0, ext2 |-> 0, ext3 |-> 0, buf |-> Zeros(PayloadSize)]

NoFrame == [cmd |-> 0, ext1 |-> 0, ext2 |-> 0, ext3 |-> 0, buf |-> <<>>]

(* USBCommand.__init__(blob, cmd).  None is passed as <<>> (blob) and as 0   *)
(* (cmd): the constructor only tests truthiness, and None, "" and 0 are all  *)
(* false.  struct.unpack raises struct.error unless it gets 16 bytes.        *)
USBCommand(blob, cmd, order) ==
    IF Len(blob) > 0
    THEN IF Len(Take(blob, HeaderSize)) # HeaderSize
         THEN [status |-> "struct.error", frame |-> NoFrame]
         ELSE [status |-> "ok",
               frame |-> [cmd  |-> UnpackI(SubSeq(blob, 1, 4), order),
                          ext1 |-> UnpackI(SubSeq(blob, 5, 8), order),
                          ext2 |-> UnpackI(SubSeq(blob, 9, 12), order),
                          ext3 |-> UnpackI(SubSeq(blob, 13, 16), order),
                          buf  |-> Drop(blob, HeaderSize)]]
    ELSE IF cmd # 0
         THEN [status |-> "ok", frame |-> [DefaultFrame EXCEPT !.cmd = cmd]]
         ELSE [status |-> "ok", frame |-> DefaultFrame]

(* an encoding that writes ext3 before ext2 *)
Mut_Str(fr, order) ==
    PackI(fr.cmd, order) \o PackI(fr.ext1, order) \o PackI(fr.ext3, order)
        \o PackI(fr.ext2, order) \o fr.buf

(* USBCommand.__str__ *)
Str(fr, order) ==
    PackI(fr.cmd, order) \o PackI(fr.ext1, order) \o PackI(fr.ext2, order)
        \o PackI(fr.ext3, order) \o fr.buf

----------------------------------------------------------------------------
(* What the device can put on the wire *)

Patterns == {"zero", "mid", "ff", "ramp"}

(* byte j (1-based) of the payload the device sends for chunk offset off *)
PatByte(pat, off, j) ==
    CASE pat = "zero" -> 0
      [] pat = "mid"  -> 128
      [] pat = "ff"   -> 255
      [] OTHER        -> (7 * off + 5 * j) % 256

Payload(pat, off, len) == [j \in 1..len |-> PatByte(pat, off, j)]

(* a full 64-byte frame as the firmware builds it *)
DeviceFrame(cmd, e1, e2, e3, pat, off, order) ==
    PackI(cmd, order) \o PackI(e1, order) \o PackI(e2, order) \o PackI(e3, order)
        \o Payload(pat, off, PayloadSize)

(* what bulkRead(0x82, 64, 1000) may hand back: up to 64 bytes of a frame *)
ReadLens == {0, 1, 8, 15, 16, 17, 20, 64}

Opcodes == {CMD_TUNE, CMD_TUNE_RESP, CMD_SAMPLES, CMD_SAMPLES_RESP, 2457}

----------------------------------------------------------------------------
(* The codec on its own: build a frame, encode it, decode the encoding *)

NoOutcome == [status |-> "none", frame |-> NoFrame]

Running == [kind |-> "none", code |-> 0]

Return == [kind |-> "return", code |-> 0]

Raised(kind, code) == [kind |-> kind, code |-> code]

DefaultScript == [pat |-> "zero", len |-> ReadSize, alt |-> ReadSize]

SessionIdle ==
    /\ pc = "unused" /\ dev = "None" /\ usb = <<>> /\ op = "none" /\ x = <<>>
    /\ script = DefaultScript
    /\ n = 0 /\ nreq = 0 /\ i = 0 /\ c = DefaultFrame /\ r = NoOutcome
    /\ samples = <<>> /\ msgs = <<>> /\ antennas = <<>>
    /\ result = Running
    /\ log = <<>> /\ failed = 0 /\ outstanding = 0 /\ ops = 0

CodecInit ==
    /\ byteorder \in {"little", "big"}
    /\ busses = <<>>
    /\ cpc = "start" /\ origin = "none" /\ src = <<>>
    /\ f = NoOutcome /\ enc = <<>> /\ g = NoOutcome
    /\ SessionIdle

(* c = USBCommand(cmd=...) *)
CNew ==
    /\ cpc = "start"
    /\ \E cmd \in Opcodes \cup {0} :
          f' = USBCommand(<<>>, cmd, byteorder)
    /\ origin' = "cmd" /\ cpc' = "frame"
    /\ UNCHANGED <<byteorder, busses, src, enc, g, svars>>

(* attribute assignment on a frame: c.ext1 = ..., c.buf = ... *)
CSetFields ==
    /\ cpc = "frame" /\ origin = "cmd"
    /\ \E e1 \in {0, 1310770}, e2 \in {0, 300}, e3 \in {0, 2147483647},
          pat \in {"zero", "ramp"}, len \in {0, 1, 5, 47, 48, 50} :
          f' = [f EXCEPT !.frame.ext1 = e1, !.frame.ext2 = e2, !.frame.ext3 = e3,
                         !.frame.buf = Payload(pat, 0, len)]
    /\ origin' = "set"
    /\ UNCHANGED <<byteorder, busses, cpc, src, enc, g, svars>>

(* cmd = USBCommand(cmdstr) on the bytes of a transport read *)
CFromBlob ==
    /\ cpc = "start"
    /\ \E cmd \in {CMD_TUNE_RESP, 2457}, e1 \in {0, 1310770}, e3 \in {0, 1048581},
          pat \in {"zero", "ramp"}, len \in ReadLens :
          LET b == Take(DeviceFrame(cmd, e1, 300, e3, pat, 0, byteorder), len)
          IN /\ src' = b
             /\ f' = USBCommand(b, 0, byteorder)
             /\ cpc' = IF f'.status = "ok" THEN "frame" ELSE "raised"
    /\ origin' = "blob"
    /\ UNCHANGED <<byteorder, busses, enc, g, svars>>

(* cmdstr = str(cmd) *)
CEncode ==
    /\ cpc = "frame"
    /\ enc' = Str(f.frame, byteorder)
    /\ cpc' = "encoded"
    /\ UNCHANGED <<byteorder, busses, origin, src, f, g, svars>>

(* USBCommand(blob=str(f)) *)
CDecode ==
    /\ cpc = "encoded"
    /\ g' = USBCommand(enc, 0, byteorder)
    /\ cpc' = "decoded"
    /\ UNCHANGED <<byteorder, busses, origin, src, f, enc, svars>>

CodecNext == CNew \/ CSetFields \/ CFromBlob \/ CEncode \/ CDecode

SpecCodec == CodecInit /\ [][CodecNext]_vars

----------------------------------------------------------------------------
(* The session: construction, finalizer, transport and commands *)

productID == 19343
vendorID == 39620

(* what usb.busses() may enumerate: devices in bus order *)
DeviceLists ==
    { <<>>,
      << [idVendor |-> vendorID, idProduct |-> 1] >>,
      << [idVendor |-> 1, idProduct |-> productID] >>,
      << [idVendor |-> 1, idProduct |-> 1],
         [idVendor |-> vendorID, idProduct |-> productID] >> }

(* a device taken for the Proxmark on its vendor id alone *)
Mut_Find(devs) ==
    LET hits == { k \in 1..Len(devs) : devs[k].idVendor = vendorID }
    IN IF hits = {} THEN 0 ELSE CHOOSE k \in hits : \A m \in hits : k <= m

(* Proxmark._find: the index of the first matching device, 0 for None *)
Find(devs) ==
    LET hits == { k \in 1..Len(devs) :
                    devs[k].idVendor = vendorID /\ devs[k].idProduct = productID }
    IN IF hits = {} THEN 0 ELSE CHOOSE k \in hits : \A m \in hits : k <= m

Call(name, ok) == [call |-> name, ok |-> ok]

CodecIdle ==
    /\ cpc = "unused" /\ origin = "none" /\ src = <<>>
    /\ f = NoOutcome /\ enc = <<>> /\ g = NoOutcome

Init ==
    /\ byteorder \in {"little", "big"}
    /\ busses \in DeviceLists
    /\ CodecIdle
    /\ pc = "find" /\ dev = "None" /\ usb = <<>> /\ op = "none" /\ x = <<>>
    /\ script = DefaultScript
    /\ n = 0 /\ nreq = 0 /\ i = 0 /\ c = DefaultFrame /\ r = NoOutcome
    /\ samples = <<>> /\ msgs = <<>> /\ antennas = <<>>
    /\ result = Running
    /\ log = <<>> /\ failed = 0 /\ outstanding = 0 /\ ops = 0

opvars == <<op, x, script, n, nreq, i, c, r, samples, msgs, antennas, log,
            failed, outstanding, ops>>

(* __init__: dev = self._find(); if not dev: raise ProxError *)
Construct_find ==
    /\ pc = "find"
    /\ IF Find(busses) = 0
       THEN pc' = "init_raised" /\ result' = Raised("ProxError", 0)
       ELSE pc' = "open" /\ result' = result
    /\ UNCHANGED <<byteorder, busses, cvars, dev, usb, opvars>>

(* self.dev = dev.open() *)
Construct_open ==
    /\ pc = "open"
    /\ \E ok \in BOOLEAN :
          /\ usb' = Append(usb, Call("open", ok))
          /\ IF ok
             THEN dev' = "handle" /\ pc' = "detach" /\ result' = result
             ELSE dev' = dev /\ pc' = "init_raised" /\ result' = Raised("USBError", 0)
    /\ UNCHANGED <<byteorder, busses, cvars, opvars>>

(* a constructor that lets the failure of detachKernelDriver through *)
Mut_Construct_detachKernelDriver ==
    /\ pc = "detach"
    /\ \E ok \in BOOLEAN :
          /\ usb' = Append(usb, Call("detachKernelDriver", ok))
          /\ IF ok
             THEN pc' = "setconf" /\ result' = result
             ELSE pc' = "init_raised" /\ result' = Raised("USBError", 0)
    /\ UNCHANGED <<byteorder, busses, cvars, dev, opvars>>

(* try: self.dev.detachKernelDriver(intf[0])  except: pass *)
Construct_detachKernelDriver ==
    /\ pc = "detach"
    /\ \E ok \in BOOLEAN : usb' = Append(usb, Call("detachKernelDriver", ok))
    /\ pc' = "setconf"
    /\ UNCHANGED <<byteorder, busses, cvars, dev, result, opvars>>

(* self.dev.setConfiguration(conf) *)
Construct_setConfiguration ==
    /\ pc = "setconf"
    /\ \E ok \in BOOLEAN :
          /\ usb' = Append(usb, Call("setConfiguration", ok))
          /\ IF ok
             THEN pc' = "claim" /\ result' = result
             ELSE pc' = "init_raised" /\ result' = Raised("USBError", 0)
    /\ UNCHANGED <<byteorder, busses, cvars, dev, opvars>>

(* self.dev.claimInterface(intf[0]) *)
Construct_claimInterface ==
    /\ pc = "claim"
    /\ \E ok \in BOOLEAN :
          /\ usb' = Append(usb, Call("claimInterface", ok))
          /\ IF ok
             THEN pc' = "ready" /\ result' = Return
             ELSE pc' = "init_raised" /\ result' = Raised("USBError", 0)
    /\ UNCHANGED <<byteorder, busses, cvars, dev, opvars>>

(* __del__: what the finalizer calls, given self.dev.  What the call does *)
(* is not recorded: the interpreter ignores an exception raised in __del__. *)
ReleaseCalls(d) == IF d = "None" THEN <<>> ELSE << Call("releaseInterface", TRUE) >>

(* __del__ runs when the object goes away: after the constructor raised, or *)
(* when the caller drops a session no operation is running on.              *)
Finalize ==
    /\ pc \in {"ready", "init_raised"}
    /\ usb' = usb \o ReleaseCalls(dev)
    /\ pc' = "deleted"
    /\ UNCHANGED <<byteorder, busses, cvars, dev, result, opvars>>

----------------------------------------------------------------------------
(* Transport events, as recorded in log *)

Wr(fr) == [dir |-> "w", cmd |-> fr.cmd, ext1 |-> fr.ext1,
           len |-> Len(Str(fr, byteorder))]

Rd(b) == [dir |-> "r", cmd |-> 0, ext1 |-> 0, len |-> Len(b)]

(* the device's answers to chunk requests within one operation *)
Scripts ==
    { [pat |-> "zero", len |-> 64, alt |-> 64],
      [pat |-> "ff",   len |-> 64, alt |-> 64],
      [pat |-> "ramp", len |-> 64, alt |-> 64],
      [pat |-> "ramp", len |-> 64, alt |-> 20],
      [pat |-> "mid",  len |-> 20, alt |-> 20],
      [pat |-> "ramp", len |-> 17, alt |-> 17],
      [pat |-> "zero", len |-> 16, alt |-> 16] }

ShortScripts == { s \in Scripts : s.len <= 17 /\ s.alt <= 17 }

(* downloads of more than SmallDownload samples are run against the short *)
(* answers only, which keeps their buffers small                          *)
AllowedScripts(nn) == IF nn > SmallDownload THEN ShortScripts ELSE Scripts

ChunkLen(s, off) == IF (off \div ChunkStep) % 2 = 1 THEN s.alt ELSE s.len

ChunkBlob(s, off) ==
    Take(DeviceFrame(CMD_SAMPLES_RESP, off, 0, 0, s.pat, off, byteorder),
         ChunkLen(s, off))

(* answers that end a download: another opcode, nothing, half a header *)
OddBlobs ==
    { DeviceFrame(2457, 0, 0, 0, "zero", 0, byteorder),
      <<>>,
      Take(DeviceFrame(CMD_SAMPLES_RESP, 0, 0, 0, "zero", 0, byteorder), 8) }

TuneBlobs ==
    { Take(DeviceFrame(cmd, e1, e2, e3, "zero", 0, byteorder), len) :
        cmd \in {CMD_TUNE_RESP, 2457}, e1 \in {1310770, 2147483647},
        e2 \in {300, 70000}, e3 \in {1048581, 2147418112},
        len \in {0, 8, 20, ReadSize} }

DebugBlobs ==
    { DeviceFrame(256, 0, 0, 0, "zero", 0, byteorder),
      Take(DeviceFrame(256, 7, 0, 0, "ramp", 0, byteorder), 20),
      Take(DeviceFrame(256, 0, 0, 0, "zero", 0, byteorder), 8) }

XVals == {0, 5}

(* the optional argument x: None, 0, a value *)
XArgs == { <<>> } \cup { <<v>> : v \in XVals }

(* bulkRead outcomes: the read raises USBError, or returns bytes *)
Reads(blobs) == { [ok |-> FALSE, blob |-> <<>>] }
                \cup { [ok |-> TRUE, blob |-> b] : b \in blobs }

(* the transfer that raised taken as done: the operation goes on to p *)
Mut_TransportFailed(p) == [pc |-> p, result |-> Running]

(* a bulkWrite or bulkRead raises outside read_msgs: nothing catches the  *)
(* USBError, so the operation that would have gone on to p is over        *)
TransportFailed(p) == [pc |-> "ready", result |-> Raised("USBError", 0)]

(* what every public operation starts from: no operation is running and   *)
(* the locals of the previous one are gone                                *)
BeginOp(name) ==
    /\ pc = "ready" /\ ops < MaxOps
    /\ op' = name /\ ops' = ops + 1
    /\ r' = NoOutcome /\ antennas' = <<>> /\ msgs' = <<>>

----------------------------------------------------------------------------
(* tune *)

BitAnd(a, b) ==
    LET RECURSIVE and(_, _)
        and(p, q) == IF p = 0 \/ q = 0 THEN 0
                     ELSE (p % 2) * (q % 2) + 2 * and(p \div 2, q \div 2)
    IN and(a, b)

Shr(a, k) == a \div (2 ^ k)

Antenna(name, v, z) == [name |-> name, voltage |-> v, impedance |-> z]

(* the check reporting the opcode it expected instead of the one it got *)
Mut_TuneCheck(resp) ==
    IF resp.cmd # CMD_TUNE_RESP THEN Raised("ProxError", CMD_TUNE_RESP) ELSE Return

(* tune, lines 97-98: the opcode check *)
TuneCheck(resp) ==
    IF resp.cmd # CMD_TUNE_RESP THEN Raised("ProxError", resp.cmd) ELSE Return

(* the 134kHz impedance taken from the high half of ext3 *)
Mut_TuneDecode(resp) ==
    << Antenna("125kHz", BitAnd(resp.ext1, 65535), BitAnd(resp.ext3, 65535)),
       Antenna("134kHz", Shr(resp.ext1, 16), Shr(resp.ext3, 16)),
       Antenna("13.56MHz", resp.ext2, Shr(resp.ext3, 16)) >>

(* tune, lines 101-111: decode tuning information *)
TuneDecode(resp) ==
    << Antenna("125kHz", BitAnd(resp.ext1, 65535), BitAnd(resp.ext3, 65535)),
       Antenna("134kHz", Shr(resp.ext1, 16), BitAnd(resp.ext3, 65535)),
       Antenna("13.56MHz", resp.ext2, Shr(resp.ext3, 16)) >>

(* tune: self._send(0x400) *)
tune ==
    /\ BeginOp("tune")
    /\ c' = USBCommand(<<>>, CMD_TUNE, byteorder).frame
    /\ \E ok \in BOOLEAN :
          IF ok
          THEN /\ log' = << Wr(c') >> /\ outstanding' = outstanding + 1
               /\ pc' = "tune_recv" /\ result' = Running /\ failed' = 0
          ELSE /\ log' = <<>> /\ outstanding' = outstanding
               /\ pc' = TransportFailed("tune_recv").pc
               /\ result' = TransportFailed("tune_recv").result
               /\ failed' = 1
    /\ x' = <<>>
    /\ script' = DefaultScript /\ samples' = <<>>
    /\ n' = 0 /\ nreq' = 0 /\ i' = 0
    /\ UNCHANGED <<byteorder, busses, cvars, dev, usb>>

(* tune: resp = self._recvcmd() and the rest *)
tune_recv ==
    /\ pc = "tune_recv"
    /\ \E rd \in Reads(TuneBlobs) :
          IF ~rd.ok
          THEN /\ pc' = TransportFailed("ready").pc
               /\ result' = TransportFailed("ready").result
               /\ failed' = failed + 1
               /\ UNCHANGED <<r, antennas, log, outstanding>>
          ELSE LET d == USBCommand(rd.blob, 0, byteorder)
               IN /\ log' = Append(log, Rd(rd.blob))
                  /\ outstanding' = outstanding - 1
                  /\ r' = d
                  /\ pc' = "ready" /\ failed' = failed
                  /\ IF d.status # "ok"
                     THEN result' = Raised(d.status, 0) /\ antennas' = antennas
                     ELSE /\ result' = TuneCheck(d.frame)
                          /\ antennas' = IF TuneCheck(d.frame).kind = "return"
                                         THEN TuneDecode(d.frame) ELSE antennas
    /\ UNCHANGED <<byteorder, busses, cvars, dev, usb, op, x, script, n, nreq, i, c, samples,
                   msgs, ops>>

----------------------------------------------------------------------------
(* samples *)

(* line 121 *)
Clamp(nn) == IF nn > MaxSamples THEN MaxSamples ELSE nn

(* stepping by the size of the payload *)
Mut_NextChunk(k) == k + PayloadSize

(* line 123: the step of xrange(0, n, 12) *)
NextChunk(k) == k + ChunkStep

(* an off-by-one bias *)
Mut_Sample(b) == b - (SampleBias - 1)

(* line 130 *)
Sample(b) == b - SampleBias

(* a check that lets every opcode through *)
Mut_ChunkCheck(resp) == Return

(* lines 127-128 *)
ChunkCheck(resp) ==
    IF resp.cmd # CMD_SAMPLES_RESP THEN Raised("ProxError", resp.cmd) ELSE Return

(* a loop that is entered once for n = 0 and for negative n *)
Mut_SamplesEnter(nn) ==
    /\ samples' = <<>>
    /\ c' = USBCommand(<<>>, CMD_SAMPLES, byteorder).frame
    /\ nreq' = nn
    /\ n' = Clamp(nn)
    /\ i' = 0
    /\ pc' = "samples_send" /\ result' = Running

(* lines 118-123: up to the first test of the loop *)
SamplesEnter(nn) ==
    /\ samples' = <<>>
    /\ c' = USBCommand(<<>>, CMD_SAMPLES, byteorder).frame
    /\ nreq' = nn
    /\ n' = Clamp(nn)
    /\ i' = 0
    /\ IF 0 < Clamp(nn)
       THEN pc' = "samples_send" /\ result' = Running
       ELSE pc' = "ready" /\ result' = Return

(* samples(n), called by the user *)
samples_call(N, budget) ==
    /\ ops < budget
    /\ BeginOp("samples")
    /\ \E nn \in N :
          /\ SamplesEnter(nn)
          /\ \E s \in AllowedScripts(nn) : script' = s
    /\ log' = <<>> /\ failed' = 0 /\ x' = <<>>
    /\ UNCHANGED <<byteorder, busses, cvars, dev, usb, outstanding>>

(* the next chunk requested without reading the response to this one *)
Mut_AfterSendcmd(p) ==
    CASE p = "samples_send" -> "samples_send"
      [] p = "lf_send" -> "lf_recv"
      [] p = "hf_send" -> "hf_recv"
      [] OTHER -> p

(* where a command goes once its request is written *)
AfterSendcmd(p) ==
    CASE p = "samples_send" -> "samples_recv"
      [] p = "lf_send" -> "lf_recv"
      [] p = "hf_send" -> "hf_recv"
      [] OTHER -> p

(* c.ext1 = i; self._sendcmd(c) *)
samples_send ==
    /\ pc = "samples_send"
    /\ c' = [c EXCEPT !.ext1 = i]
    /\ \E ok \in BOOLEAN :
          IF ok
          THEN /\ log' = Append(log, Wr(c')) /\ outstanding' = outstanding + 1
               /\ pc' = AfterSendcmd(pc) /\ result' = result
               /\ failed' = failed
          ELSE /\ pc' = TransportFailed(AfterSendcmd(pc)).pc
               /\ result' = TransportFailed(AfterSendcmd(pc)).result
               /\ failed' = failed + 1
               /\ UNCHANGED <<log, outstanding>>
    /\ UNCHANGED <<byteorder, busses, cvars, dev, usb, op, x, script, n, nreq, i, r, samples,
                   msgs, antennas, ops>>

(* r = self._recvcmd(); the check; the inner loop; the next test of the loop *)
samples_recv ==
    /\ pc = "samples_recv"
    /\ \E rd \in Reads({ChunkBlob(script, i)} \cup OddBlobs) :
          IF ~rd.ok
          THEN /\ pc' = TransportFailed("samples_send").pc
               /\ result' = TransportFailed("samples_send").result
               /\ failed' = failed + 1
               /\ UNCHANGED <<r, samples, log, outstanding, i>>
          ELSE LET d == USBCommand(rd.blob, 0, byteorder)
               IN /\ log' = Append(log, Rd(rd.blob))
                  /\ outstanding' = outstanding - 1
                  /\ r' = d /\ failed' = failed
                  /\ IF d.status # "ok"
                     THEN /\ result' = Raised(d.status, 0) /\ pc' = "ready"
                          /\ UNCHANGED <<samples, i>>
                     ELSE IF ChunkCheck(d.frame).kind # "return"
                     THEN /\ result' = ChunkCheck(d.frame) /\ pc' = "ready"
                          /\ UNCHANGED <<samples, i>>
                     ELSE /\ samples' = samples \o
                              [k \in 1..Len(d.frame.buf) |-> Sample(d.frame.buf[k])]
                          /\ i' = NextChunk(i)
                          /\ IF NextChunk(i) < n
                             THEN pc' = "samples_send" /\ result' = result
                             ELSE pc' = "ready" /\ result' = Return
    /\ UNCHANGED <<byteorder, busses, cvars, dev, usb, op, x, script, n, nreq, c,
                   msgs, antennas, ops>>

----------------------------------------------------------------------------
(* read_msgs *)

(* a list that takes each new frame at its head *)
Mut_MsgsAppend(ms, fr) == << fr >> \o ms

(* line 141: msgs.append(c) *)
MsgsAppend(ms, fr) == Append(ms, fr)

read_msgs ==
    /\ BeginOp("read_msgs")
    /\ pc' = "msgs_recv" /\ result' = Running
    /\ x' = <<>> /\ failed' = 0
    /\ log' = <<>> /\ script' = DefaultScript /\ samples' = <<>>
    /\ n' = 0 /\ nreq' = 0 /\ i' = 0 /\ c' = DefaultFrame
    /\ UNCHANGED <<byteorder, busses, cvars, dev, usb, outstanding>>

(* one turn of the loop: c = self._recvcmd(); msgs.append(c); except: break *)
read_msgs_recv ==
    /\ pc = "msgs_recv"
    /\ \E rd \in Reads(DebugBlobs) :
          IF ~rd.ok
          THEN /\ result' = Return /\ pc' = "ready"
               /\ failed' = failed + 1
               /\ UNCHANGED <<r, msgs, log, outstanding>>
          ELSE LET d == USBCommand(rd.blob, 0, byteorder)
               IN /\ log' = Append(log, Rd(rd.blob))
                  /\ outstanding' = outstanding - 1
                  /\ r' = d /\ failed' = failed
                  /\ IF d.status # "ok"
                     THEN result' = Return /\ pc' = "ready" /\ msgs' = msgs
                     ELSE /\ Len(msgs) < MaxMsgs
                          /\ msgs' = MsgsAppend(msgs, d.frame)
                          /\ pc' = pc /\ result' = result
    /\ UNCHANGED <<byteorder, busses, cvars, dev, usb, op, x, script, n, nreq, i, c, samples,
                   antennas, ops>>

----------------------------------------------------------------------------
(* operations that write a frame and read a debug response *)

(* a request that leaves ext1 at its default whatever the argument *)
Mut_WithExt1(cmd, xa) == USBCommand(<<>>, cmd, byteorder).frame

(* c = USBCommand(cmd=...); if x: c.ext1 = x   (None and 0 are both false) *)
WithExt1(cmd, xa) ==
    LET fr == USBCommand(<<>>, cmd, byteorder).frame
    IN IF xa # <<>> /\ xa[1] # 0 THEN [fr EXCEPT !.ext1 = xa[1]] ELSE fr

(* the request of lf_read / hf_read_iso14443a, through self._sendcmd(c) *)
SendFirst(name, xa, fr, nextpc, scripts) ==
    /\ BeginOp(name)
    /\ x' = xa
    /\ c' = fr
    /\ \E ok \in BOOLEAN :
          IF ok
          THEN /\ log' = << Wr(fr) >> /\ outstanding' = outstanding + 1
               /\ pc' = nextpc /\ result' = Running /\ failed' = 0
          ELSE /\ log' = <<>> /\ outstanding' = outstanding
               /\ pc' = TransportFailed(nextpc).pc
               /\ result' = TransportFailed(nextpc).result
               /\ failed' = 1
    /\ \E s \in scripts : script' = s
    /\ samples' = <<>>
    /\ n' = 0 /\ nreq' = 0 /\ i' = 0
    /\ UNCHANGED <<byteorder, busses, cvars, dev, usb>>

(* lf_read(highMode): if highMode: c.ext1 = 1 *)
lf_read ==
    \E highMode \in BOOLEAN :
       SendFirst("lf_read", <<>>,
                 WithExt1(CMD_LF_READ, IF highMode THEN <<1>> ELSE <<>>),
                 AfterSendcmd("lf_send"), {DefaultScript})

(* a 125kHz read that asks for the high mode *)
Mut_lf_read_125khz ==
    SendFirst("lf_read_125khz", <<>>, WithExt1(CMD_LF_READ, <<1>>),
              AfterSendcmd("lf_send"), AllowedScripts(DefaultSamples))

(* self.lf_read(); return self.samples() *)
lf_read_125khz ==
    SendFirst("lf_read_125khz", <<>>, WithExt1(CMD_LF_READ, <<>>),
              AfterSendcmd("lf_send"), AllowedScripts(DefaultSamples))

(* self.lf_read(highMode=True); return self.samples() *)
lf_read_134khz ==
    SendFirst("lf_read_134khz", <<>>, WithExt1(CMD_LF_READ, <<1>>),
              AfterSendcmd("lf_send"), AllowedScripts(DefaultSamples))

(* the device's answers to the 84 chunk requests of hf_read_iso14443a *)
HfScripts == { s \in AllowedScripts(HfSamples) : s.pat = "zero" }

hf_read_iso14443a ==
    \E xa \in XArgs :
       SendFirst("hf_read_iso14443a", xa, WithExt1(CMD_HF_READ_14A, xa),
                 AfterSendcmd("hf_send"), HfScripts)

(* dbg = self._recvcmd(), then return dbg or go on to self.samples(nn) *)
DebugRecv(at, download, nn) ==
    /\ pc = at
    /\ \E rd \in Reads(DebugBlobs) :
          IF ~rd.ok
          THEN /\ pc' = TransportFailed(IF download THEN "samples_send"
                                                      ELSE "ready").pc
               /\ result' = TransportFailed(IF download THEN "samples_send"
                                                          ELSE "ready").result
               /\ failed' = failed + 1
               /\ UNCHANGED <<r, log, outstanding, samples, c, nreq, n, i>>
          ELSE LET d == USBCommand(rd.blob, 0, byteorder)
               IN /\ log' = Append(log, Rd(rd.blob))
                  /\ outstanding' = outstanding - 1
                  /\ r' = d /\ failed' = failed
                  /\ IF d.status # "ok"
                     THEN /\ result' = Raised(d.status, 0) /\ pc' = "ready"
                          /\ UNCHANGED <<samples, c, nreq, n, i>>
                     ELSE IF download
                     THEN SamplesEnter(nn)
                     ELSE /\ result' = Return /\ pc' = "ready"
                          /\ UNCHANGED <<samples, c, nreq, n, i>>
    /\ UNCHANGED <<byteorder, busses, cvars, dev, usb, op, x, script, msgs,
                   antennas, ops>>

lf_recv == DebugRecv("lf_recv", op # "lf_read", DefaultSamples)

hf_recv == DebugRecv("hf_recv", TRUE, HfSamples)

----------------------------------------------------------------------------
(* operations that write one frame and read nothing *)

Fire(name, xa, fr) ==
    /\ BeginOp(name)
    /\ x' = xa
    /\ c' = fr
    /\ \E ok \in BOOLEAN :
          IF ok
          THEN /\ log' = << Wr(fr) >> /\ outstanding' = outstanding + 1
               /\ pc' = "ready" /\ result' = Return /\ failed' = 0
          ELSE /\ log' = <<>> /\ outstanding' = outstanding
               /\ pc' = TransportFailed("ready").pc
               /\ result' = TransportFailed("ready").result
               /\ failed' = 1
    /\ script' = DefaultScript /\ samples' = <<>>
    /\ n' = 0 /\ nreq' = 0 /\ i' = 0
    /\ UNCHANGED <<byteorder, busses, cvars, dev, usb>>

lf_xmit == Fire("lf_xmit", <<>>, USBCommand(<<>>, CMD_LF_XMIT, byteorder).frame)

lf_hid_fsk_demod ==
    Fire("lf_hid_fsk_demod", <<>>, USBCommand(<<>>, CMD_HID_DEMOD, byteorder).frame)

hf_snoop_iso14443a ==
    Fire("hf_snoop_iso14443a", <<>>,
         USBCommand(<<>>, CMD_HF_SNOOP_14A, byteorder).frame)

hf_iso14443a_reader ==
    \E xa \in XArgs :
       Fire("hf_iso14443a_reader", xa, WithExt1(CMD_HF_READER_14A, xa))

hf_read_iso15693 ==
    Fire("hf_read_iso15693", <<>>, USBCommand(<<>>, CMD_HF_READ_15693, byteorder).frame)

hf_iso15693_reader ==
    Fire("hf_iso15693_reader", <<>>,
         USBCommand(<<>>, CMD_HF_READER_15693, byteorder).frame)

hf_sim_iso15693 ==
    \E xa \in XArgs : Fire("hf_sim_iso15693", xa, WithExt1(CMD_HF_SIM_15693, xa))

----------------------------------------------------------------------------
(* A session from construction to the finalizer, any public operations *)

SessionN == {-13, 0, 13, 25}

Next ==
    \/ Construct_find
    \/ Construct_open
    \/ Construct_detachKernelDriver
    \/ Construct_setConfiguration
    \/ Construct_claimInterface
    \/ Finalize
    \/ tune
    \/ tune_recv
    \/ samples_call(SessionN, MaxOps)
    \/ samples_send
    \/ samples_recv
    \/ read_msgs
    \/ read_msgs_recv
    \/ lf_read
    \/ lf_read_125khz
    \/ lf_read_134khz
    \/ lf_recv
    \/ lf_xmit
    \/ lf_hid_fsk_demod
    \/ hf_read_iso14443a
    \/ hf_recv
    \/ hf_snoop_iso14443a
    \/ hf_iso14443a_reader
    \/ hf_read_iso15693
    \/ hf_iso15693_reader
    \/ hf_sim_iso15693

Spec == Init /\ [][Next]_vars

(* One samples(n) call on a constructed session, every size of download *)

DownloadN == {-13, -1, 0, 1, 12, 13, 25, 20000}

InitReady ==
    /\ byteorder \in {"little", "big"}
    /\ busses \in { d \in DeviceLists : Find(d) # 0 }
    /\ CodecIdle
    /\ pc = "ready" /\ dev = "handle"
    /\ usb = << Call("open", TRUE), Call("detachKernelDriver", TRUE),
                Call("setConfiguration", TRUE), Call("claimInterface", TRUE) >>
    /\ op = "none" /\ x = <<>> /\ script = DefaultScript
    /\ n = 0 /\ nreq = 0 /\ i = 0 /\ c = DefaultFrame /\ r = NoOutcome
    /\ samples = <<>> /\ msgs = <<>> /\ antennas = <<>>
    /\ result = Return
    /\ log = <<>> /\ failed = 0 /\ outstanding = 0 /\ ops = 0

NextSamples == samples_call(DownloadN, 1) \/ samples_send \/ samples_recv

SpecSamples == InitReady /\ [][NextSamples]_vars

----------------------------------------------------------------------------
(* Properties *)

CeilDiv(a, b) == -((-a) \div b)

Header(fr) == <<fr.cmd, fr.ext1, fr.ext2, fr.ext3>>

Writes(l) == { k \in 1..Len(l) : l[k].dir = "w" }

Reads_(l) == { k \in 1..Len(l) : l[k].dir = "r" }

(* C1: decoding the encoding of a frame built from an opcode, ext1..ext3   *)
(* and a payload of 0..48 bytes gives the same four header fields and a    *)
(* payload of exactly 48 bytes: the original payload followed by zeros.    *)
C1_RoundTripPadded ==
    (cpc = "decoded" /\ origin \in {"cmd", "set"}
        /\ Len(f.frame.buf) <= PayloadSize)
    => /\ g.status = "ok"
       /\ Header(g.frame) = Header(f.frame)
       /\ Len(g.frame.buf) = PayloadSize
       /\ g.frame.buf = f.frame.buf \o Zeros(PayloadSize - Len(f.frame.buf))

(* C2: the encoding of every frame (built from an opcode, decoded from a   *)
(* transport read, or with its fields set afterwards) is exactly 64 bytes: *)
(* 16 header bytes, then the payload padded or truncated to 48 bytes.      *)
C2_EncodedLength64 ==
    cpc \in {"encoded", "decoded"}
    => /\ Len(enc) = HeaderSize + PayloadSize
       /\ Take(enc, HeaderSize) =
             PackI(f.frame.cmd, byteorder) \o PackI(f.frame.ext1, byteorder)
                \o PackI(f.frame.ext2, byteorder) \o PackI(f.frame.ext3, byteorder)
       /\ Drop(enc, HeaderSize) =
             Take(f.frame.buf \o Zeros(PayloadSize), PayloadSize)

(* C3: decoding a byte sequence of length 0..15 fails (FrameTooShortError) *)
(* and produces no frame, never one with default or partly read fields.    *)
C3_ShortBlobRejected ==
    (origin = "blob" /\ Len(src) < HeaderSize)
    => /\ f.status \notin {"ok", "none"}
       /\ cpc = "raised"

(* C4: for a response with opcode 0x401, tune returns (125kHz, 134kHz,     *)
(* 13.56MHz) with voltages ext1 & 0xFFFF, ext1 >> 16, ext2 and impedances  *)
(* ext3 & 0xFFFF, ext3 & 0xFFFF, ext3 >> 16; both LF antennas carry the    *)
(* same impedance.                                                         *)
C4_TuneReadings ==
    (op = "tune" /\ pc = "ready" /\ r.status = "ok" /\ r.frame.cmd = CMD_TUNE_RESP)
    => /\ result = Return
       /\ antennas =
            << [name |-> "125kHz", voltage |-> r.frame.ext1 % 65536,
                impedance |-> r.frame.ext3 % 65536],
               [name |-> "134kHz", voltage |-> r.frame.ext1 \div 65536,
                impedance |-> r.frame.ext3 % 65536],
               [name |-> "13.56MHz", voltage |-> r.frame.ext2,
                impedance |-> r.frame.ext3 \div 65536] >>
       /\ antennas[1].impedance = antennas[2].impedance
       /\ (Header(r.frame) = <<CMD_TUNE_RESP, 1310770, 300, 1048581>>
             => antennas = << [name |-> "125kHz", voltage |-> 50, impedance |-> 5],
                              [name |-> "134kHz", voltage |-> 20, impedance |-> 5],
                              [name |-> "13.56MHz", voltage |-> 300,
                               impedance |-> 16] >>)

C4_Witness ==
    /\ op = "tune" /\ pc = "ready" /\ result = Return
    /\ Header(r.frame) = <<CMD_TUNE_RESP, 2147483647, 70000, 2147418112>>
    /\ antennas[2].voltage = 32767 /\ antennas[3].impedance = 32767
    /\ antennas[1].impedance = 0

(* C5: tune writes one frame with opcode 0x400 and reads one response;     *)
(* when the response opcode is not 0x401 it fails with a protocol error    *)
(* carrying the response's opcode, and returns no antenna readings.        *)
C5_TuneProtocolError ==
    op = "tune"
    => /\ Len(log) <= 2
       /\ (Len(log) >= 1 =>
             log[1] = [dir |-> "w", cmd |-> CMD_TUNE, ext1 |-> 0, len |-> ReadSize])
       /\ (Len(log) = 2 => log[2].dir = "r")
       /\ (pc = "ready" /\ result.kind \in {"return", "ProxError"} => Len(log) = 2)
       /\ (pc = "ready" /\ r.status = "ok" /\ r.frame.cmd # CMD_TUNE_RESP
             => /\ result = [kind |-> "ProxError", code |-> r.frame.cmd]
                /\ antennas = <<>>)

C5_Witness ==
    /\ op = "tune" /\ pc = "ready" /\ r.status = "ok" /\ r.frame.cmd = 2457
    /\ result = [kind |-> "ProxError", code |-> 2457]
    /\ Len(log) = 2

(* the requests samples(nn) is to write: the offsets of xrange below the   *)
(* clamped nn, none when nn is not positive                                *)
Limit(nn) == Min(nn, MaxSamples)

Chunks(nn) == IF Limit(nn) <= 0 THEN 0 ELSE CeilDiv(Limit(nn), ChunkStep)

ChunkRequest(off) ==
    [dir |-> "w", cmd |-> CMD_SAMPLES, ext1 |-> off, len |-> ReadSize]

Returned == op = "samples" /\ pc = "ready" /\ result = Return

(* C6, as stated: whenever every response has opcode 0x205, samples(n)      *)
(* writes exactly ceil(min(n,16000)/12) chunk requests, for every n.        *)
C6_RequestCountAsStated ==
    Returned => Cardinality(Writes(log)) = CeilDiv(Limit(nreq), ChunkStep)

(* C6, amended: when every response has opcode 0x205, samples(n) writes     *)
(* exactly ceil(min(n,16000)/12) chunk requests when n > 0 and none when    *)
(* n <= 0; the requests have opcode 0x204 and ext1 = 0, 12, 24, ... in      *)
(* ascending order, each below min(n,16000), each followed by one read;     *)
(* samples(20000) issues 1334 requests, the last at offset 15996.           *)
C6_ChunkRequests ==
    /\ (op = "samples" /\ pc = "samples_recv")
         => /\ Len(log) % 2 = 1
            /\ log[Len(log)] = ChunkRequest(ChunkStep * ((Len(log) - 1) \div 2))
            /\ log[Len(log)].ext1 < Limit(nreq)
    /\ Returned
         => /\ Len(log) = 2 * Chunks(nreq)
            /\ Cardinality(Writes(log)) = Chunks(nreq)
            /\ \A k \in 1..Chunks(nreq) :
                  /\ log[2 * k - 1] = ChunkRequest(ChunkStep * (k - 1))
                  /\ log[2 * k - 1].ext1 < Limit(nreq)
                  /\ log[2 * k].dir = "r"
            /\ (nreq = 20000 =>
                  /\ Cardinality(Writes(log)) = 1334
                  /\ log[Len(log) - 1].ext1 = 15996)

C6_Witness ==
    /\ Returned /\ nreq = 20000 /\ n = MaxSamples
    /\ Len(log) = 2668 /\ log[2667].ext1 = 15996

(* C7: for every sequence of responses with opcode 0x205, the buffer        *)
(* returned by samples(n) holds exactly ceil(min(n,16000)/12) * 48 samples  *)
(* (stated here for n >= 0).                                                *)
C7_BufferLength ==
    (Returned /\ nreq >= 0)
    => Len(samples) = CeilDiv(Limit(nreq), ChunkStep) * PayloadSize

(* the payload the device sent in answer to request number k (from 0) and *)
(* the number of payload bytes sent in answer to the requests before it    *)
SentLen(s, k) == ChunkLen(s, ChunkStep * k) - HeaderSize

SentBefore(s, k) == ((k + 1) \div 2) * SentLen(s, 0) + (k \div 2) * SentLen(s, 1)

(* C8: every element of the returned buffer is (payload byte - 128) for the *)
(* payload byte at the same position, chunk by chunk in request order and   *)
(* byte by byte in payload order; every sample lies in -128..127.           *)
C8_SampleMapping ==
    Returned
    => /\ Len(samples) = SentBefore(script, Len(log) \div 2)
       /\ \A k \in 0..(Len(log) \div 2 - 1) : \A j \in 1..SentLen(script, k) :
             samples[SentBefore(script, k) + j]
                = PatByte(script.pat, ChunkStep * k, j) - 128
       /\ \A k \in 1..Len(samples) : samples[k] \in -128..127

C8_Witness ==
    /\ Returned /\ nreq = 25 /\ Len(samples) = 3 * PayloadSize
    /\ script.pat = "ramp"
    /\ samples[1] = -123 /\ samples[PayloadSize + 1] = (7 * 12 + 5) - 128

(* C9, as stated: over any sequence of public operations, frames written    *)
(* minus frames read never exceeds 1.                                       *)
C9_OneOutstanding == outstanding <= 1

(* C9, amended: within one public operation at most one request is          *)
(* outstanding: a bulk write that is not the operation's first comes right  *)
(* after the read of the previous request's response, so the operation's    *)
(* frames written minus frames read never exceeds 1.                        *)
C9_OneOutstandingPerOperation ==
    /\ Cardinality(Writes(log)) - Cardinality(Reads_(log)) <= 1
    /\ (Len(log) >= 2 /\ log[Len(log)].dir = "w") => log[Len(log) - 1].dir = "r"

C9_Witness ==
    /\ op = "lf_read_125khz" /\ pc = "samples_recv" /\ Len(log) = 5
    /\ log[1].cmd = CMD_LF_READ /\ log[2].dir = "r"
    /\ log[3] = ChunkRequest(0) /\ log[4].dir = "r" /\ log[5] = ChunkRequest(12)

ClaimsMade == { k \in 1..Len(usb) : usb[k] = Call("claimInterface", TRUE) }

Releases == { k \in 1..Len(usb) : usb[k].call = "releaseInterface" }

(* C10: over any session lifecycle, after teardown the number of            *)
(* releaseInterface calls equals the number of successful claimInterface    *)
(* calls: released once if claimed, never if not.                           *)
C10_ReleaseMatchesClaim ==
    pc = "deleted" => Cardinality(Releases) = Cardinality(ClaimsMade)

NoMatch(devs) ==
    \A k \in 1..Len(devs) :
       ~(devs[k].idVendor = vendorID /\ devs[k].idProduct = productID)

(* C11: when no enumerated device has vendor id 0x9ac4 and product id       *)
(* 0x4b8f, construction fails with the device-not-found error (ProxError),  *)
(* no device is opened, configured or claimed, and the finalizer of the     *)
(* failed session releases nothing: no usb call is ever made.               *)
C11_NotFound ==
    (NoMatch(busses) /\ pc # "find")
    => /\ pc \in {"init_raised", "deleted"}
       /\ result = Raised("ProxError", 0)
       /\ dev = "None"
       /\ usb = <<>>
       /\ log = <<>> /\ ops = 0

C11_Witness ==
    /\ pc = "deleted" /\ busses # <<>> /\ NoMatch(busses)
    /\ \E k \in 1..Len(busses) : busses[k].idVendor = vendorID
    /\ usb = <<>> /\ result = Raised("ProxError", 0)

(* the frame a debug response of the given length decodes to *)
DebugFrame(len) ==
    IF len = ReadSize
    THEN [cmd |-> 256, ext1 |-> 0, ext2 |-> 0, ext3 |-> 0,
          buf |-> Zeros(PayloadSize)]
    ELSE [cmd |-> 256, ext1 |-> 7, ext2 |-> 0, ext3 |-> 0,
          buf |-> Payload("ramp", 0, len - HeaderSize)]

(* C12: read_msgs only reads, one response after another, and never raises; *)
(* its list holds the frames received so far in the order received; at the  *)
(* first read that fails it returns that list (empty when the first read    *)
(* fails): every read before the failure is a frame of the list.            *)
C12_DrainUntilFailure ==
    op = "read_msgs"
    => /\ Writes(log) = {}
       /\ result \in {Running, Return}
       /\ Len(msgs) = Cardinality({ k \in 1..Len(log) : log[k].len >= HeaderSize })
       /\ \A k \in 1..Len(msgs) : msgs[k] = DebugFrame(log[k].len)
       /\ failed <= 1
       /\ failed = 1 => /\ pc \in {"ready", "deleted"}
                        /\ result = Return
                        /\ Len(msgs) = Len(log)

C12_Witness ==
    /\ op = "read_msgs" /\ pc = "ready" /\ failed = 1 /\ result = Return
    /\ Len(msgs) = 2 /\ msgs[1] # msgs[2]
    /\ msgs[1] = DebugFrame(ReadSize)

(* C13: in samples, a decoded response whose opcode is not 0x205 ends the   *)
(* operation with ProxError carrying that opcode: the response is the last  *)
(* transfer (no further chunk request is written) and nothing is returned,  *)
(* not even the samples of the chunks already received.                     *)
C13_WrongOpcode ==
    (op = "samples" /\ r.status = "ok" /\ r.frame.cmd # CMD_SAMPLES_RESP)
    => /\ pc = "ready"
       /\ result = Raised("ProxError", r.frame.cmd)
       /\ log # <<>> /\ log[Len(log)].dir = "r"
       /\ Cardinality(Writes(log)) = Cardinality(Reads_(log))

C13_Witness ==
    /\ op = "samples" /\ r.status = "ok" /\ r.frame.cmd = 2457
    /\ Len(samples) > 0 /\ Len(log) = 4
    /\ result = Raised("ProxError", 2457)

(* the k-th transfer of an operation that writes the request first, reads  *)
(* one response and then downloads: is e what the operation does there?    *)
TraceEntry(k, e, first) ==
    IF k = 1 THEN e = first
    ELSE IF k % 2 = 0 THEN e.dir = "r"
    ELSE e = ChunkRequest(ChunkStep * ((k - 3) \div 2))

(* C14: the transfers of lf_read_125khz are, in this order: one write of    *)
(* opcode 0x203 with ext1 = 0, one read (the debug response), then request  *)
(* and response of opcode 0x204 chunk by chunk with ext1 = 0, 12, ...; the  *)
(* operation returns after 11 such pairs, the last request at ext1 = 120.   *)
(* The first chunk request is the third transfer, after the debug read.     *)
C14_LfRead125Trace ==
    op = "lf_read_125khz"
    => /\ Len(log) <= 2 + 2 * 11
       /\ \A k \in 1..Len(log) :
             TraceEntry(k, log[k], [dir |-> "w", cmd |-> CMD_LF_READ, ext1 |-> 0,
                                    len |-> ReadSize])
       /\ (pc \in {"ready", "deleted"} /\ result = Return)
             => /\ Len(log) = 2 + 2 * 11
                /\ log[Len(log) - 1] = ChunkRequest(120)

C14_Witness ==
    /\ op = "lf_read_125khz" /\ pc = "ready" /\ result = Return
    /\ Len(log) = 24 /\ log[3] = ChunkRequest(0) /\ log[23] = ChunkRequest(120)
    /\ Len(samples) = 11 * PayloadSize

(* the value of the optional argument: 0 when it is not given *)
ArgOr0(xa) == IF xa = <<>> THEN 0 ELSE xa[1]

(* C15: the transfers of hf_read_iso14443a(x) are, in this order: one write *)
(* of opcode 0x301 whose ext1 is x when x is given and 0 otherwise, one     *)
(* read, then the download of 1000 samples: 84 chunk requests with ext1 =   *)
(* 0, 12, ..., 996, each followed by the read of its response.              *)
C15_HfRead14aTrace ==
    op = "hf_read_iso14443a"
    => /\ Len(log) <= 2 + 2 * 84
       /\ \A k \in 1..Len(log) :
             TraceEntry(k, log[k], [dir |-> "w", cmd |-> CMD_HF_READ_14A,
                                    ext1 |-> ArgOr0(x), len |-> ReadSize])
       /\ (pc \in {"ready", "deleted"} /\ result = Return)
             => /\ Len(log) = 2 + 2 * 84
                /\ log[Len(log) - 1] = ChunkRequest(996)

C15_Witness ==
    /\ op = "hf_read_iso14443a" /\ pc = "ready" /\ result = Return
    /\ x = <<5>> /\ log[1].ext1 = 5
    /\ Len(log) = 170 /\ log[169] = ChunkRequest(996)

(* C16: outside read_msgs, once a bulk write or bulk read of an operation   *)
(* has raised, the operation is over with that USBError: the transfer is    *)
(* not tried again (one failure per operation, the log of completed         *)
(* transfers is not extended) and nothing of the operation runs on.         *)
C16_FailurePropagates ==
    (op \notin {"none", "read_msgs"} /\ failed > 0)
    => /\ failed = 1
       /\ pc \in {"ready", "deleted"}
       /\ result = Raised("USBError", 0)

C16_Witness ==
    /\ op = "lf_read_134khz" /\ failed = 1 /\ pc = "ready"
    /\ result = Raised("USBError", 0)
    /\ Len(log) = 5 /\ log[5] = ChunkRequest(ChunkStep)

ConstructionCalls == SelectSeq(usb, LAMBDA u : u.call # "releaseInterface")

ConstructionOrder ==
    << "open", "detachKernelDriver", "setConfiguration", "claimInterface" >>

(* C17: construction on a matching device calls open, detachKernelDriver,   *)
(* setConfiguration and claimInterface in this order; after a failed        *)
(* detachKernelDriver the constructor goes on to setConfiguration, while a  *)
(* failed open, setConfiguration or claimInterface is the last call and     *)
(* construction fails with its USBError; a constructed session has made all *)
(* four calls.                                                              *)
C17_ConstructionOrder ==
    LET steps == ConstructionCalls
    IN /\ Len(steps) <= 4
       /\ \A k \in 1..Len(steps) :
             /\ steps[k].call = ConstructionOrder[k]
             /\ (~steps[k].ok /\ k # 2)
                   => /\ k = Len(steps)
                      /\ pc \in {"init_raised", "deleted"}
                      /\ result = Raised("USBError", 0)
                      /\ ops = 0
       /\ Len(steps) = 2 => pc = "setconf"
       /\ (pc = "init_raised" /\ steps # <<>>)
             => ~steps[Len(steps)].ok /\ Len(steps) # 2
       /\ (pc = "ready" \/ ops > 0)
             => /\ Len(steps) = 4
                /\ steps[1].ok /\ steps[3].ok /\ steps[4].ok

C17_Witness ==
    /\ pc = "ready" /\ ops = 0 /\ Len(usb) = 4
    /\ usb[2] = Call("detachKernelDriver", FALSE)
    /\ usb[3] = Call("setConfiguration", TRUE)
    /\ usb[4] = Call("claimInterface", TRUE)

(* C18: for every 64-byte sequence b (header values below 2^31, either     *)
(* byte order), str(USBCommand(blob=b)) is b, byte for byte.                *)
C18_DecodeEncodeIdentity ==
    (origin = "blob" /\ Len(src) = ReadSize /\ cpc \in {"encoded", "decoded"})
    => f.status = "ok" /\ enc = src

C18_Witness ==
    /\ origin = "blob" /\ Len(src) = ReadSize /\ cpc = "encoded"
    /\ src[HeaderSize + 1] # 0 /\ f.frame.ext3 = 1048581
    /\ enc = src

(* C19: read_msgs returns only when a transport read has failed: whenever   *)
(* it has returned, one of its reads raised.  (The other half of the        *)
(* equivalence, that a failed read makes it return, is part of C12.)        *)
C19_ReturnsOnlyOnTransportFailure ==
    (op = "read_msgs" /\ pc = "ready") => failed > 0

(* C20: samples(n) with n <= 0 writes nothing, reads nothing and returns    *)
(* an empty buffer.                                                         *)
C20_NothingForNonPositive ==
    (op = "samples" /\ nreq <= 0)
    => /\ pc = "ready" /\ result = Return
       /\ log = <<>> /\ failed = 0
       /\ samples = <<>>

C20_Witness ==
    /\ op = "samples" /\ nreq = 0 /\ n = 0
    /\ pc = "ready" /\ result = Return /\ samples = <<>>

====
